---- MODULE Spec2Model ----
(***************************************************************************)
(* Token lifecycle of the blog API: register, login, refresh-token and     *)
(* logout over the User and Token collections, with the jsonwebtoken       *)
(* sign/verify semantics the controllers and middlewares rely on; the      *)
(* profile update, the blog banner upload and the comment listing as far   *)
(* as their answers and their writes to the User collection go.            *)
(***************************************************************************)
EXTENDS Integers, Sequences, FiniteSets, Bags, TLC

VARIABLES
  users,      \* the User collection: a set of user documents
  tokens,     \* the Token collection: a bag of {token, userId} documents
  now,        \* the wall clock, in the seconds granularity of iat / exp
  nextId,     \* the next ObjectId the database hands out
  NODE_ENV,   \* config.NODE_ENV, fixed at startup
  req,        \* the request served in the current second, if any
  res,        \* the response sent to it
  revoked,    \* the first refresh token whose record a logout has removed
  unrecorded, \* the first refresh token signed in a request whose Token.create failed
  pending,    \* bag of requests that passed validation and wait for their
              \* controller
  blogs,      \* the Blog collection: a set of blog documents
  comments    \* the Comment collection: a set of comment documents

vars == <<users, tokens, now, nextId, NODE_ENV, req, res, revoked, unrecorded,
          pending, blogs, comments>>

----------------------------------------------------------------------------
(* Bounds of the model *)

MaxClock == 2
MaxTokens == 2
MaxPending == 2
MaxBlogs == 1
MaxDeleting == 1
MaxUsers == 2
MaxComments == 2

----------------------------------------------------------------------------
(* Configuration (config module: deployment values) *)

ACCESS_TOKEN_EXPIRY == 1
REFRESH_TOKEN_EXPIRY == 2
JWT_ACCESS_SECRET == "access-secret"
JWT_REFRESH_SECRET == "refresh-secret"
WHITELISTED_ADMIN_MAIL == {"a@x.com"}

Environments == {"production", "development"}

----------------------------------------------------------------------------
(* Request inputs *)

Emails == {"a@x.com", "b@x.com"}
BadEmail == "not-an-email"
GoodPassword == "Abcd1234!"
OtherPassword == "Wxyz5678?"
WeakPassword == "weak"
Undefined == "undefined"

----------------------------------------------------------------------------
(* JSON web tokens.  A compact token is determined by its payload and the  *)
(* secret that signed it: two tokens are the same string exactly when      *)
(* these agree.  "kind" separates a well-formed JWT from an absent cookie  *)
(* and from a string that is no JWT.                                       *)

NoToken == [kind |-> "absent", userId |-> 0, iat |-> 0, exp |-> 0, key |-> ""]
Malformed == [kind |-> "malformed", userId |-> 0, iat |-> 0, exp |-> 0, key |-> ""]

\* jwt.sign({ userId }, secret, { expiresIn }) at time t
jwtSign(userId, secret, expiresIn, t) ==
  [kind |-> "jwt", userId |-> userId, iat |-> t, exp |-> t + expiresIn, key |-> secret]

\* The same header and payload with a signature no secret of the service made
Forge(token) == [token EXCEPT !.key = "forged"]

\* Error classes of jsonwebtoken: TokenExpiredError extends JsonWebTokenError
InstanceOf(err, class) ==
  \/ err = class
  \/ err = "TokenExpiredError" /\ class = "JsonWebTokenError"

\* jwt.verify(token, secret) at time t: the format, then the signature, then exp
jwtVerify(token, secret, t) ==
  IF token.kind # "jwt"
    THEN [ok |-> FALSE, err |-> "JsonWebTokenError", userId |-> 0]
  ELSE IF token.key # secret
    THEN [ok |-> FALSE, err |-> "JsonWebTokenError", userId |-> 0]
  ELSE IF t >= token.exp
    THEN [ok |-> FALSE, err |-> "TokenExpiredError", userId |-> 0]
  ELSE [ok |-> TRUE, err |-> "", userId |-> token.userId]

generateAccessToken(userId, t) ==
  jwtSign(userId, JWT_ACCESS_SECRET, ACCESS_TOKEN_EXPIRY, t)

generateRefreshToken(userId, t) ==
  jwtSign(userId, JWT_REFRESH_SECRET, REFRESH_TOKEN_EXPIRY, t)

verifyAccessToken(token, t) == jwtVerify(token, JWT_ACCESS_SECRET, t)

verifyRefreshToken(token, t) == jwtVerify(token, JWT_REFRESH_SECRET, t)

----------------------------------------------------------------------------
(* The Token collection *)

\* Token.exists({ token })
TokenExists(store, token) == \E d \in BagToSet(store) : d.token = token

\* a create that replaces the collection's content (an upsert gone wrong)
TokenCreate_Replacing(store, token, userId) ==
  SetToBag({[token |-> token, userId |-> userId]})

\* Token.create({ token, userId })
TokenCreate(store, token, userId) ==
  store (+) SetToBag({[token |-> token, userId |-> userId]})

\* the number of documents holding the token
TokenCount(store, token) ==
  BagCardinality([d \in {x \in BagToSet(store) : x.token = token} |-> store[d]])

\* Token.deleteOne({ token }): one matching document, if any
TokenDeleteOne(store, token) ==
  IF ~TokenExists(store, token) THEN store
  ELSE store (-) SetToBag({CHOOSE d \in BagToSet(store) : d.token = token})

----------------------------------------------------------------------------
(* The User collection *)

\* bcrypt.hash(plain, 10) and bcrypt.compare(plain, hash)
bcryptHash(plain) == "$2b$10$" \o plain
bcryptCompare(plain, hash) == hash = bcryptHash(plain)

\* a hook that stores the password as it came
preSave_Unhashed(doc, passwordModified) == doc

\* userSchema.pre("save"): hash the password when it was modified
preSave(doc, passwordModified) ==
  IF ~passwordModified THEN doc
  ELSE [doc EXCEPT !.password = bcryptHash(doc.password)]

\* a schema whose default role is admin
roleOrDefault_AdminByDefault(role) == IF role = Undefined THEN "admin" ELSE role

\* the schema default of role
roleOrDefault(role) == IF role = Undefined THEN "user" ELSE role

UserExistsByEmail(coll, email) == \E u \in coll : u.email = email
UserExistsByUsername(coll, username) == \E u \in coll : u.username = username
UserByEmail(coll, email) == CHOOSE u \in coll : u.email = email

\* a collection without the unique indexes
DuplicateKey_NoIndex(coll, username, email) == FALSE

\* the unique indexes on username and email reject the insert
DuplicateKey(coll, username, email) ==
  UserExistsByUsername(coll, username) \/ UserExistsByEmail(coll, email)

\* the document User.create builds (ObjectId id, hook applied)
NewUserDoc(id, username, email, password, role) ==
  preSave([id |-> id, username |-> username, email |-> email,
           password |-> password, role |-> roleOrDefault(role)], TRUE)

----------------------------------------------------------------------------
(* Responses *)

NoCookie == [op |-> "none", value |-> NoToken, httpOnly |-> FALSE,
             secure |-> FALSE, sameSite |-> ""]
NoUserView == [username |-> "", email |-> "", role |-> ""]

EmptyRes == [op |-> "none", status |-> 0, keys |-> {}, code |-> "",
             message |-> "", errors |-> {}, user |-> NoUserView,
             accessToken |-> NoToken, cookie |-> NoCookie]

\* res.status(s).json({ code, message })
ErrorRes(op, status, code, message) ==
  [EmptyRes EXCEPT !.op = op, !.status = status, !.keys = {"code", "message"},
                   !.code = code, !.message = message]

\* res.status(500).json({ code: "ServerError", message, error: err })
ServerErrorRes(op) ==
  [EmptyRes EXCEPT !.op = op, !.status = 500,
                   !.keys = {"code", "message", "error"},
                   !.code = "ServerError", !.message = "Internal Server Error"]

\* validationError: res.status(400).json({ code, errors: errors.mapped() })
ValidationErrorRes(op, errors) ==
  [EmptyRes EXCEPT !.op = op, !.status = 400, !.keys = {"code", "errors"},
                   !.code = "ValidationError", !.errors = errors]

\* a cookie that is marked secure in every environment
RefreshCookie_AlwaysSecure(token, env) ==
  [op |-> "set", value |-> token, httpOnly |-> TRUE,
   secure |-> TRUE, sameSite |-> "strict"]

\* res.cookie("refreshToken", token, { httpOnly, secure, sameSite })
RefreshCookie(token, env) ==
  [op |-> "set", value |-> token, httpOnly |-> TRUE,
   secure |-> (env = "production"), sameSite |-> "strict"]

\* res.clearCookie("refreshToken", { httpOnly, secure, sameSite })
ClearedCookie(env) ==
  [op |-> "clear", value |-> NoToken, httpOnly |-> TRUE,
   secure |-> (env = "production"), sameSite |-> "strict"]

\* the body of a successful register / login
SessionRes(op, status, user, accessToken, refreshToken, env) ==
  [EmptyRes EXCEPT !.op = op, !.status = status,
                   !.keys = {"user", "accessToken"},
                   !.user = [username |-> user.username, email |-> user.email,
                             role |-> user.role],
                   !.accessToken = accessToken,
                   !.cookie = RefreshCookie(refreshToken, env)]

----------------------------------------------------------------------------
(* Requests *)

NoHeader == [scheme |-> "none", token |-> NoToken]
Bearer(token) == [scheme |-> "Bearer", token |-> token]
BasicHeader == [scheme |-> "Basic", token |-> NoToken]

EmptyReq == [cookie |-> NoToken, auth |-> NoHeader, email |-> "",
             password |-> "", role |-> "", username |-> "", fail |-> "none",
             method |-> "", file |-> "", blogId |-> "", route |-> "",
             target |-> 0]

----------------------------------------------------------------------------
(* Middlewares *)

\* an authenticate whose catch block tests the base class first
authenticate_BaseClassFirst(header, t) ==
  IF header.scheme # "Bearer"
    THEN [next |-> FALSE, userId |-> 0,
          res |-> ErrorRes("authenticate", 401, "AuthenticationError",
                           "Access denied. No token provided.")]
  ELSE LET jwtPayload == verifyAccessToken(header.token, t) IN
    IF jwtPayload.ok
      THEN [next |-> TRUE, userId |-> jwtPayload.userId, res |-> EmptyRes]
    ELSE IF InstanceOf(jwtPayload.err, "JsonWebTokenError")
      THEN [next |-> FALSE, userId |-> 0,
            res |-> ErrorRes("authenticate", 401, "AuthenticationError",
                             "Access token invalid")]
    ELSE [next |-> FALSE, userId |-> 0, res |-> ServerErrorRes("authenticate")]

\* an authenticate that decodes the payload without checking the signature
authenticate_DecodeOnly(header, t) ==
  IF header.scheme # "Bearer"
    THEN [next |-> FALSE, userId |-> 0,
          res |-> ErrorRes("authenticate", 401, "AuthenticationError",
                           "Access denied. No token provided.")]
  ELSE IF header.token.kind # "jwt"
    THEN [next |-> FALSE, userId |-> 0,
          res |-> ErrorRes("authenticate", 401, "AuthenticationError",
                           "Access token invalid")]
  ELSE IF t >= header.token.exp
    THEN [next |-> FALSE, userId |-> 0,
          res |-> ErrorRes("authenticate", 401, "AuthenticationError",
               "Access token expired, request a new one with refresh token")]
  ELSE [next |-> TRUE, userId |-> header.token.userId, res |-> EmptyRes]

\* an authenticate that lets a request without a Bearer header through
authenticate_HeaderOptional(header, t) ==
  IF header.scheme # "Bearer"
    THEN [next |-> TRUE, userId |-> 0, res |-> EmptyRes]
  ELSE LET jwtPayload == verifyAccessToken(header.token, t) IN
    IF jwtPayload.ok
      THEN [next |-> TRUE, userId |-> jwtPayload.userId, res |-> EmptyRes]
    ELSE IF InstanceOf(jwtPayload.err, "TokenExpiredError")
      THEN [next |-> FALSE, userId |-> 0,
            res |-> ErrorRes("authenticate", 401, "AuthenticationError",
                 "Access token expired, request a new one with refresh token")]
    ELSE [next |-> FALSE, userId |-> 0,
          res |-> ErrorRes("authenticate", 401, "AuthenticationError",
                           "Access token invalid")]

\* an authenticate that also wants the user of the token to exist
authenticate_CheckingUser(header, t) ==
  IF header.scheme # "Bearer"
    THEN [next |-> FALSE, userId |-> 0,
          res |-> ErrorRes("authenticate", 401, "AuthenticationError",
                           "Access denied. No token provided.")]
  ELSE LET jwtPayload == verifyAccessToken(header.token, t) IN
    IF jwtPayload.ok /\ \E u \in users : u.id = jwtPayload.userId
      THEN [next |-> TRUE, userId |-> jwtPayload.userId, res |-> EmptyRes]
    ELSE IF InstanceOf(jwtPayload.err, "TokenExpiredError")
      THEN [next |-> FALSE, userId |-> 0,
            res |-> ErrorRes("authenticate", 401, "AuthenticationError",
                 "Access token expired, request a new one with refresh token")]
    ELSE [next |-> FALSE, userId |-> 0,
          res |-> ErrorRes("authenticate", 401, "AuthenticationError",
                           "Access token invalid")]

\* an authenticate that does not look at the expiry
authenticate_ExpiredAccepted(header, t) ==
  IF header.scheme # "Bearer"
    THEN [next |-> FALSE, userId |-> 0,
          res |-> ErrorRes("authenticate", 401, "AuthenticationError",
                           "Access denied. No token provided.")]
  ELSE IF header.token.kind = "jwt" /\ header.token.key = JWT_ACCESS_SECRET
    THEN [next |-> TRUE, userId |-> header.token.userId, res |-> EmptyRes]
  ELSE [next |-> FALSE, userId |-> 0,
        res |-> ErrorRes("authenticate", 401, "AuthenticationError",
                         "Access token invalid")]

\* authenticate: { next, userId } or the 401 / 500 it answers
authenticate(header, t) ==
  IF header.scheme # "Bearer"
    THEN [next |-> FALSE, userId |-> 0,
          res |-> ErrorRes("authenticate", 401, "AuthenticationError",
                           "Access denied. No token provided.")]
  ELSE LET jwtPayload == verifyAccessToken(header.token, t) IN
    IF jwtPayload.ok
      THEN [next |-> TRUE, userId |-> jwtPayload.userId, res |-> EmptyRes]
    ELSE IF InstanceOf(jwtPayload.err, "TokenExpiredError")
      THEN [next |-> FALSE, userId |-> 0,
            res |-> ErrorRes("authenticate", 401, "AuthenticationError",
                 "Access token expired, request a new one with refresh token")]
    ELSE IF InstanceOf(jwtPayload.err, "JsonWebTokenError")
      THEN [next |-> FALSE, userId |-> 0,
            res |-> ErrorRes("authenticate", 401, "AuthenticationError",
                             "Access token invalid")]
    ELSE [next |-> FALSE, userId |-> 0, res |-> ServerErrorRes("authenticate")]

\* an authorize that only wants the user to exist
authorize_AnyRole(roles, userId, fail) ==
  IF fail = "User.findById"
    THEN [next |-> FALSE, res |-> ServerErrorRes("authorize")]
  ELSE IF ~\E u \in users : u.id = userId
    THEN [next |-> FALSE,
          res |-> ErrorRes("authorize", 404, "NotFound", "User not found")]
  ELSE [next |-> TRUE, res |-> EmptyRes]

\* authorize(roles): { next } or the 404 / 403 / 500 it answers
authorize(roles, userId, fail) ==
  IF fail = "User.findById"
    THEN [next |-> FALSE, res |-> ServerErrorRes("authorize")]
  ELSE IF ~\E u \in users : u.id = userId
    THEN [next |-> FALSE,
          res |-> ErrorRes("authorize", 404, "NotFound", "User not found")]
  ELSE IF (CHOOSE u \in users : u.id = userId).role \notin roles
    THEN [next |-> FALSE,
          res |-> ErrorRes("authorize", 403, "AuthorizationError",
                           "Access denied, insufficient permissions")]
  ELSE [next |-> TRUE, res |-> EmptyRes]

\* the request was handed to the next handler of the chain, no answer yet
NextRes == [EmptyRes EXCEPT !.op = "next"]

\* res.status(undefined).json(..) in a catch block throws in its turn: the
\* request stays unanswered, or the framework's default error handler
\* answers 500 with a body that is no JSON object
ThrownInCatch(op) ==
  {[EmptyRes EXCEPT !.op = op],
   [EmptyRes EXCEPT !.op = op, !.status = 500]}

\* uploadBlogBanner(method): the answers it can give, or the call of next.
\* file is the multer upload (none, large, ok); fail is what Blog.findById
\* or uploadToCloudiary met: a storage error, an upload error with http_code
\* 400 or 500, or no data.
uploadBlogBanner(method, file, fail) ==
  IF method = "put" /\ file = "none" THEN {NextRes}
  ELSE IF file = "none"
    THEN {ErrorRes("uploadBlogBanner", 400, "ValidationError",
                   "Blog banner image is required")}
  ELSE IF file = "large"
    THEN {ErrorRes("uploadBlogBanner", 413, "ValidationError",
                   "File size cannot exceed 2 MB")}
  ELSE IF fail = "Blog.findById" THEN ThrownInCatch("uploadBlogBanner")
  ELSE IF fail = "upload:undefined"
    THEN {ErrorRes("uploadBlogBanner", 500, "ServerError",
                   "Internal Server Error")}
  ELSE IF fail = "upload:400"
    THEN {ErrorRes("uploadBlogBanner", 400, "ValidationError",
                   "Invalid image file")}
  ELSE IF fail = "upload:500"
    THEN {ErrorRes("uploadBlogBanner", 500, "Error", "Upload failed")}
  ELSE {NextRes}

\* express-validator chains of PUT /users/current, as errors.mapped()
updateErrors(username, email, password) ==
  (IF username # Undefined /\ UserExistsByUsername(users, username)
     THEN {[field |-> "username", msg |-> "This username is already taken"]}
   ELSE {})
  \cup
  (IF email = Undefined THEN {}
   ELSE IF email = BadEmail
     THEN {[field |-> "email", msg |-> "Invalid email address"]}
   ELSE IF UserExistsByEmail(users, email)
     THEN {[field |-> "email", msg |-> "This email is already in use"]}
   ELSE {})
  \cup
  (IF password = WeakPassword
     THEN {[field |-> "password",
            msg |-> "Password must be at least 8 characters long"]}
   ELSE {})

\* express-validator chain of GET /comments/blog/:blogId, as errors.mapped()
commentsErrors(blogId) ==
  IF blogId = "not-an-id"
    THEN {[field |-> "blogId", msg |-> "Invalid blog ID"]}
  ELSE {}

\* express-validator chain of POST /comments/blog/:blogId, for a blogId that
\* is a well-formed id
createCommentErrors(content) ==
  IF content = ""
    THEN {[field |-> "content", msg |-> "Content is required"]}
  ELSE {}

\* express-validator chains of POST /auth/register, as errors.mapped()
registerErrors(email, password, role) ==
  (IF email = BadEmail
     THEN {[field |-> "email", msg |-> "Invalid email address"]}
   ELSE IF UserExistsByEmail(users, email)
     THEN {[field |-> "email", msg |-> "User already exists"]}
   ELSE {})
  \cup
  (IF password = WeakPassword
     THEN {[field |-> "password",
            msg |-> "Password must be at least 8 characters long"]}
   ELSE {})
  \cup
  (IF role \notin {"admin", "user", Undefined}
     THEN {[field |-> "role", msg |-> "Role must be either 'admin' or 'user'"]}
   ELSE {})

\* express-validator chains of POST /auth/login, as errors.mapped()
loginErrors(email, password) ==
  (IF email = BadEmail
     THEN {[field |-> "email", msg |-> "Invalid email address"]}
   ELSE IF ~UserExistsByEmail(users, email)
     THEN {[field |-> "email", msg |-> "User email or password is incorrect"]}
   ELSE {})
  \cup
  (IF password = WeakPassword
     THEN {[field |-> "password",
            msg |-> "Password must be at least 8 characters long"]}
   ELSE IF ~UserExistsByEmail(users, email)
     THEN {[field |-> "password",
            msg |-> "User email or password is incorrect"]}
   ELSE IF ~bcryptCompare(password, UserByEmail(users, email).password)
     THEN {[field |-> "password",
            msg |-> "User email or password is incorrect"]}
   ELSE {})

\* a chain without notEmpty(): only isJWT() is left, and skipped when absent
refreshErrors_WithoutNotEmpty(cookie) ==
  IF cookie.kind = "malformed"
    THEN {[field |-> "refreshToken", msg |-> "Invalid refresh token"]}
  ELSE {}

\* express-validator chain of POST /auth/refresh-token, as errors.mapped()
refreshErrors(cookie) ==
  IF cookie.kind = "absent"
    THEN {[field |-> "refreshToken", msg |-> "Refresh token required"]}
  ELSE IF cookie.kind # "jwt"
    THEN {[field |-> "refreshToken", msg |-> "Invalid refresh token"]}
  ELSE {}

----------------------------------------------------------------------------
(* Controllers: the writes and the response of one call *)

Effect(u, tk, id, r) == [users |-> u, tokens |-> tk, nextId |-> id, res |-> r]

\* a register that looks at the allow-list only after it created the user
register_AllowListAfterCreate(email, password, role, username, fail) ==
  IF fail = "User.create" \/ DuplicateKey(users, username, email)
    THEN Effect(users, tokens, nextId, ServerErrorRes("register"))
  ELSE LET newUser == NewUserDoc(nextId, username, email, password, role)
           accessToken == generateAccessToken(newUser.id, now)
           rt == generateRefreshToken(newUser.id, now)
       IN IF role = "admin" /\ email \notin WHITELISTED_ADMIN_MAIL
            THEN Effect(users \cup {newUser}, tokens, nextId + 1,
                        ErrorRes("register", 403, "AuthorizationError",
                                 "You cannot register as an admin"))
          ELSE IF fail = "Token.create"
            THEN Effect(users \cup {newUser}, tokens, nextId + 1,
                        ServerErrorRes("register"))
          ELSE Effect(users \cup {newUser},
                      TokenCreate(tokens, rt, newUser.id), nextId + 1,
                      SessionRes("register", 201, newUser, accessToken, rt,
                                 NODE_ENV))

\* a register that answers with the refresh token in the accessToken field
register_RefreshTokenInBody(email, password, role, username, fail) ==
  IF role = "admin" /\ email \notin WHITELISTED_ADMIN_MAIL
    THEN Effect(users, tokens, nextId,
                ErrorRes("register", 403, "AuthorizationError",
                         "You cannot register as an admin"))
  ELSE IF fail = "User.create" \/ DuplicateKey(users, username, email)
    THEN Effect(users, tokens, nextId, ServerErrorRes("register"))
  ELSE LET newUser == NewUserDoc(nextId, username, email, password, role)
           rt == generateRefreshToken(newUser.id, now)
       IN IF fail = "Token.create"
            THEN Effect(users \cup {newUser}, tokens, nextId + 1,
                        ServerErrorRes("register"))
          ELSE Effect(users \cup {newUser},
                      TokenCreate(tokens, rt, newUser.id), nextId + 1,
                      SessionRes("register", 201, newUser, rt, rt, NODE_ENV))

\* a register that records the access token instead of the refresh token
register_RecordsAccessToken(email, password, role, username, fail) ==
  IF role = "admin" /\ email \notin WHITELISTED_ADMIN_MAIL
    THEN Effect(users, tokens, nextId,
                ErrorRes("register", 403, "AuthorizationError",
                         "You cannot register as an admin"))
  ELSE IF fail = "User.create" \/ DuplicateKey(users, username, email)
    THEN Effect(users, tokens, nextId, ServerErrorRes("register"))
  ELSE LET newUser == NewUserDoc(nextId, username, email, password, role)
           accessToken == generateAccessToken(newUser.id, now)
           rt == generateRefreshToken(newUser.id, now)
       IN IF fail = "Token.create"
            THEN Effect(users \cup {newUser}, tokens, nextId + 1,
                        ServerErrorRes("register"))
          ELSE Effect(users \cup {newUser},
                      TokenCreate(tokens, accessToken, newUser.id), nextId + 1,
                      SessionRes("register", 201, newUser, accessToken, rt,
                                 NODE_ENV))

\* a register that removes the user again when Token.create fails
register_RollingBack(email, password, role, username, fail) ==
  IF role = "admin" /\ email \notin WHITELISTED_ADMIN_MAIL
    THEN Effect(users, tokens, nextId,
                ErrorRes("register", 403, "AuthorizationError",
                         "You cannot register as an admin"))
  ELSE IF fail = "User.create" \/ DuplicateKey(users, username, email)
    THEN Effect(users, tokens, nextId, ServerErrorRes("register"))
  ELSE LET newUser == NewUserDoc(nextId, username, email, password, role)
           accessToken == generateAccessToken(newUser.id, now)
           rt == generateRefreshToken(newUser.id, now)
       IN IF fail = "Token.create"
            THEN Effect(users, tokens, nextId + 1, ServerErrorRes("register"))
          ELSE Effect(users \cup {newUser},
                      TokenCreate(tokens, rt, newUser.id), nextId + 1,
                      SessionRes("register", 201, newUser, accessToken, rt,
                                 NODE_ENV))

\* controllers/v1/auth/register
register(email, password, role, username, fail) ==
  IF role = "admin" /\ email \notin WHITELISTED_ADMIN_MAIL
    THEN Effect(users, tokens, nextId,
                ErrorRes("register", 403, "AuthorizationError",
                         "You cannot register as an admin"))
  ELSE IF fail = "User.create" \/ DuplicateKey(users, username, email)
    THEN Effect(users, tokens, nextId, ServerErrorRes("register"))
  ELSE LET newUser == NewUserDoc(nextId, username, email, password, role)
           accessToken == generateAccessToken(newUser.id, now)
           rt == generateRefreshToken(newUser.id, now)
       IN IF fail = "Token.create"
            THEN Effect(users \cup {newUser}, tokens, nextId + 1,
                        ServerErrorRes("register"))
          ELSE Effect(users \cup {newUser},
                      TokenCreate(tokens, rt, newUser.id), nextId + 1,
                      SessionRes("register", 201, newUser, accessToken, rt,
                                 NODE_ENV))

\* controllers/v1/auth/login
login(email, fail) ==
  IF fail = "User.findOne"
    THEN Effect(users, tokens, nextId, ServerErrorRes("login"))
  ELSE IF ~UserExistsByEmail(users, email)
    THEN Effect(users, tokens, nextId,
                ErrorRes("login", 404, "NotFound", "User not found"))
  ELSE LET user == UserByEmail(users, email)
           accessToken == generateAccessToken(user.id, now)
           rt == generateRefreshToken(user.id, now)
       IN IF fail = "Token.create"
            THEN Effect(users, tokens, nextId, ServerErrorRes("login"))
          ELSE Effect(users, TokenCreate(tokens, rt, user.id), nextId,
                      SessionRes("login", 201, user, accessToken, rt, NODE_ENV))

\* a catch block that tests the base class first
refreshCatch_BaseClassFirst(err) ==
  IF InstanceOf(err, "JsonWebTokenError")
    THEN ErrorRes("refresh", 401, "AuthenticationError",
                  "Invalid refresh token")
  ELSE IF InstanceOf(err, "TokenExpiredError")
    THEN ErrorRes("refresh", 401, "AuthenticationError",
                  "Refresh token expired. Please login again.")
  ELSE ServerErrorRes("refresh")

\* the catch block of the refresh controller
refreshCatch(err) ==
  IF InstanceOf(err, "TokenExpiredError")
    THEN ErrorRes("refresh", 401, "AuthenticationError",
                  "Refresh token expired. Please login again.")
  ELSE IF InstanceOf(err, "JsonWebTokenError")
    THEN ErrorRes("refresh", 401, "AuthenticationError",
                  "Invalid refresh token")
  ELSE ServerErrorRes("refresh")

\* a refresh controller that verifies the signature and never asks the store
refreshToken_NoExistenceCheck(store, cookie, fail) ==
  LET jwtPayload == verifyRefreshToken(cookie, now) IN
    IF ~jwtPayload.ok
      THEN Effect(users, store, nextId, refreshCatch(jwtPayload.err))
    ELSE Effect(users, store, nextId,
                [EmptyRes EXCEPT !.op = "refresh", !.status = 200,
                    !.keys = {"accessToken"},
                    !.accessToken = generateAccessToken(jwtPayload.userId, now)])

\* a refresh controller that rotates: it drops the record of the presented token
refreshToken_Rotating(store, cookie, fail) ==
  IF fail = "Token.exists"
    THEN Effect(users, store, nextId, refreshCatch("MongoError"))
  ELSE IF ~TokenExists(store, cookie)
    THEN Effect(users, store, nextId,
                ErrorRes("refresh", 401, "AuthenticationError",
                         "Invalid refresh token"))
  ELSE LET jwtPayload == verifyRefreshToken(cookie, now) IN
    IF ~jwtPayload.ok
      THEN Effect(users, store, nextId, refreshCatch(jwtPayload.err))
    ELSE Effect(users, TokenDeleteOne(store, cookie), nextId,
                [EmptyRes EXCEPT !.op = "refresh", !.status = 200,
                    !.keys = {"accessToken"},
                    !.accessToken = generateAccessToken(jwtPayload.userId, now)])

\* a refresh controller that issues for the user of whatever record it finds
refreshToken_AnyRecord(store, cookie, fail) ==
  IF fail = "Token.exists"
    THEN Effect(users, store, nextId, refreshCatch("MongoError"))
  ELSE IF ~TokenExists(store, cookie)
    THEN Effect(users, store, nextId,
                ErrorRes("refresh", 401, "AuthenticationError",
                         "Invalid refresh token"))
  ELSE LET jwtPayload == verifyRefreshToken(cookie, now) IN
    IF ~jwtPayload.ok
      THEN Effect(users, store, nextId, refreshCatch(jwtPayload.err))
    ELSE Effect(users, store, nextId,
                [EmptyRes EXCEPT !.op = "refresh", !.status = 200,
                    !.keys = {"accessToken"},
                    !.accessToken =
                       generateAccessToken(
                         (CHOOSE d \in BagToSet(store) : TRUE).userId, now)])

\* controllers/v1/auth/refresh_token, over the Token collection store
refreshToken(store, cookie, fail) ==
  IF fail = "Token.exists"
    THEN Effect(users, store, nextId, refreshCatch("MongoError"))
  ELSE IF ~TokenExists(store, cookie)
    THEN Effect(users, store, nextId,
                ErrorRes("refresh", 401, "AuthenticationError",
                         "Invalid refresh token"))
  ELSE LET jwtPayload == verifyRefreshToken(cookie, now) IN
    IF ~jwtPayload.ok
      THEN Effect(users, store, nextId, refreshCatch(jwtPayload.err))
    ELSE Effect(users, store, nextId,
                [EmptyRes EXCEPT !.op = "refresh", !.status = 200,
                    !.keys = {"accessToken"},
                    !.accessToken = generateAccessToken(jwtPayload.userId, now)])

\* controllers/v1/auth/logout
logout(cookie, fail) ==
  IF fail = "Token.deleteOne"
    THEN Effect(users, tokens, nextId, ServerErrorRes("logout"))
  ELSE Effect(users,
              IF cookie.kind = "absent" THEN tokens
              ELSE TokenDeleteOne(tokens, cookie),
              nextId,
              [EmptyRes EXCEPT !.op = "logout", !.status = 204,
                               !.cookie = ClearedCookie(NODE_ENV)])

\* controllers/v1/user/update_current_user
updateCurrentUser(userId, username, email, password, fail) ==
  IF fail = "User.findById"
    THEN Effect(users, tokens, nextId, ServerErrorRes("updateCurrentUser"))
  ELSE IF ~\E u \in users : u.id = userId
    THEN Effect(users, tokens, nextId,
                ErrorRes("updateCurrentUser", 404, "UserNotFound",
                         "User not found"))
  ELSE LET user == CHOOSE u \in users : u.id = userId
           changed ==
             [user EXCEPT
                !.username = IF username # Undefined THEN username ELSE @,
                !.email = IF email # Undefined THEN email ELSE @,
                !.password = IF password # Undefined THEN password ELSE @]
           saved == preSave(changed, changed.password # user.password)
       IN IF \/ fail = "user.save"
             \/ DuplicateKey(users \ {user}, changed.username, changed.email)
            THEN Effect(users, tokens, nextId,
                        ServerErrorRes("updateCurrentUser"))
          ELSE Effect((users \ {user}) \cup {saved}, tokens, nextId,
                      [EmptyRes EXCEPT !.op = "updateCurrentUser",
                         !.status = 200, !.keys = {"user"},
                         !.user = [username |-> saved.username,
                                   email |-> saved.email,
                                   role |-> saved.role]])

\* controllers/v1/comment/get_comments_by_blog
getCommentsByBlog(blogId, fail) ==
  IF fail = "Blog.findById"
    THEN [EmptyRes EXCEPT !.op = "getCommentsByBlog", !.status = 500,
                          !.keys = {"message", "status"},
                          !.message = "Internal server error"]
  ELSE IF blogId = "no-such-blog"
    THEN [EmptyRes EXCEPT !.op = "getCommentsByBlog", !.status = 404,
                          !.keys = {"message", "status"},
                          !.message = "Blog not found"]
  ELSE [EmptyRes EXCEPT !.op = "getCommentsByBlog", !.status = 200,
                        !.keys = {"comments"}]

----------------------------------------------------------------------------
(* Users and blogs: the controllers behind authorize(["admin"])            *)

\* what a controller leaves in the collections, and its answer
Outcome(u, b, tk, r) == [users |-> u, blogs |-> b, tokens |-> tk, res |-> r]

\* res.sendStatus(204), res.status(..).json(..) of a controller
Answered(op, status) == [EmptyRes EXCEPT !.op = op, !.status = status]

\* a delete that also removes the refresh token records of the user
deleteUserById_RemovingTokens(userId, fail) ==
  IF fail = "User.deleteOne"
    THEN Outcome(users, blogs, tokens, ServerErrorRes("deleteUserById"))
  ELSE Outcome({u \in users : u.id # userId}, blogs,
               [d \in {x \in BagToSet(tokens) : x.userId # userId}
                  |-> tokens[d]],
               Answered("deleteUserById", 204))

\* controllers/v1/user/delete_user_by_id
deleteUserById(userId, fail) ==
  IF fail = "User.deleteOne"
    THEN Outcome(users, blogs, tokens, ServerErrorRes("deleteUserById"))
  ELSE Outcome({u \in users : u.id # userId}, blogs, tokens,
               Answered("deleteUserById", 204))

\* Blog.deleteMany({ author: userId }) of the cascading delete_user_by_id
BlogDeleteMany(coll, userId) == {b \in coll : b.author # userId}

\* the document Blog.create builds for its author
NewBlogDoc(author) ==
  [id |-> CHOOSE i \in 1..(MaxBlogs + 1) : ~\E b \in blogs : b.id = i,
   author |-> author, commentsCount |-> 0]

\* controllers/v1/blog/create_blog: a blog whose author is req.userId
createBlog(userId) ==
  Outcome(users, blogs \cup {NewBlogDoc(userId)}, tokens,
          Answered("createBlog", 201))

\* controllers/v1/blog/delete_blog
deleteBlog(blogId) ==
  IF ~\E b \in blogs : b.id = blogId
    THEN Outcome(users, blogs, tokens,
                 ErrorRes("deleteBlog", 404, "NotFound", "Blog not found"))
  ELSE Outcome(users, {b \in blogs : b.id # blogId}, tokens,
               Answered("deleteBlog", 204))

\* the routes whose chain holds authorize(["admin"])
AdminRoutes == {"getAllUsers", "getUserById", "deleteUserById", "createBlog",
                "updateBlog", "deleteBlog"}

\* the controller at the end of an admin route
adminController(route, userId, target, fail) ==
  IF route = "deleteUserById" THEN deleteUserById(target, fail)
  ELSE IF route = "createBlog" THEN createBlog(userId)
  ELSE IF route = "deleteBlog" THEN deleteBlog(target)
  ELSE IF route = "updateBlog"
    THEN Outcome(users, blogs, tokens, Answered("updateBlog", 201))
  ELSE Outcome(users, blogs, tokens, Answered(route, 200))

----------------------------------------------------------------------------
(* The tokens a client can present: every token the service can have       *)
(* signed so far, the same payloads under a foreign signature, a string    *)
(* that is no JWT, and nothing.                                            *)

KnownIds == 1..(nextId - 1)

RefreshTokensSoFar == {generateRefreshToken(u, i) : u \in KnownIds, i \in 0..now}
AccessTokensSoFar == {generateAccessToken(u, i) : u \in KnownIds, i \in 0..now}

Recorded == {d.token : d \in BagToSet(tokens)}

\* one recorded token, one user id, to stand for them where the choice makes
\* no difference
SomeRecorded == IF Recorded = {} THEN NoToken ELSE CHOOSE t \in Recorded : TRUE
SomeIds == IF KnownIds = {} THEN {} ELSE {CHOOSE u \in KnownIds : TRUE}

CookieInputs ==
  {NoToken, Malformed} \cup RefreshTokensSoFar
    \cup {generateAccessToken(u, now) : u \in SomeIds}
    \cup {Forge(t) : t \in Recorded}

LogoutCookieInputs == {NoToken, revoked} \cup Recorded

HeaderInputs ==
  {NoHeader, BasicHeader, Bearer(Malformed), Bearer(SomeRecorded)}
    \cup {Bearer(t) : t \in AccessTokensSoFar}
    \cup {Bearer(Forge(generateAccessToken(u, now))) : u \in SomeIds}

\* Authorization headers sent to the blog and comment routes: none, or a
\* fresh access token of a user
ContentHeaderInputs ==
  {NoHeader} \cup {Bearer(generateAccessToken(u, now)) : u \in KnownIds}

BlogIds == {"not-an-id", "no-such-blog", "blog-1"}

\* Authorization headers sent to the admin routes: none, or an access token
\* issued to a user at some time so far
AccountHeaderInputs == {NoHeader} \cup {Bearer(t) : t \in AccessTokensSoFar}

\* request bodies of POST /auth/register that create the accounts: the
\* allow-listed admin, and a user who leaves the role out
AccountRegisterBodies ==
  {[email |-> "a@x.com", password |-> GoodPassword, role |-> "admin"],
   [email |-> "b@x.com", password |-> GoodPassword, role |-> Undefined]}

\* req.params of an admin route: a user id, a blog id, or none
TargetsOf(route) ==
  IF route \in {"getUserById", "deleteUserById"} THEN KnownIds
  ELSE IF route \in {"updateBlog", "deleteBlog"} THEN {b.id : b \in blogs}
  ELSE {0}

\* request bodies of POST /auth/register and PUT /users/current sent while
\* other requests are in flight
ConcurrentRegisterBodies ==
  [email : Emails, password : {GoodPassword}, role : {"user"}]
    \cup {[email |-> BadEmail, password |-> GoodPassword, role |-> "user"]}

UpdateBodies ==
  {[username |-> n, email |-> Undefined, password |-> Undefined] :
     n \in {"user-1", "user-9"}}
    \cup {[username |-> Undefined, email |-> e, password |-> Undefined] :
            e \in Emails \cup {BadEmail}}
    \cup {[username |-> Undefined, email |-> Undefined, password |-> p] :
            p \in {OtherPassword, WeakPassword}}

\* request bodies of PUT /users/current sent one at a time: those above, a
\* password of the caller's choice, and as password the string the password
\* field of the caller holds (the 200 of an update returns the document)
ProfileBodies(header) ==
  UpdateBodies
    \cup {[username |-> Undefined, email |-> Undefined, password |-> p] :
            p \in {GoodPassword}
                    \cup {u.password : u \in {x \in users :
                                                x.id = header.token.userId}}}

\* genUsername(): a name nobody holds yet, or by chance the name of a user
FreshUsername == IF nextId = 1 THEN "user-1" ELSE IF nextId = 2 THEN "user-2" ELSE "user-3"
UsernameInputs == {FreshUsername} \cup {u.username : u \in users}

\* request bodies of POST /auth/register: the valid ones and one per failing rule
RegisterBodies ==
  [email : Emails, password : {GoodPassword}, role : {"admin", "user"}]
    \cup {[email |-> "b@x.com", password |-> GoodPassword, role |-> Undefined],
          [email |-> BadEmail, password |-> GoodPassword, role |-> "user"],
          [email |-> "a@x.com", password |-> WeakPassword, role |-> "user"],
          [email |-> "b@x.com", password |-> GoodPassword, role |-> "editor"]}

\* request bodies of POST /auth/login
LoginBodies ==
  [email : Emails, password : {GoodPassword, OtherPassword}]
    \cup {[email |-> BadEmail, password |-> GoodPassword],
          [email |-> "a@x.com", password |-> WeakPassword]}

----------------------------------------------------------------------------
(* Routes: one action per request, the middleware chain and the controller *)

Apply(e) ==
  /\ users' = e.users
  /\ tokens' = e.tokens
  /\ nextId' = e.nextId
  /\ res' = e.res

\* POST /auth/register: validators, validationError, register
RegisterRequest(email, password, role, username, fail) ==
  LET errors == registerErrors(email, password, role)
      e == IF errors # {}
             THEN Effect(users, tokens, nextId,
                         ValidationErrorRes("register", errors))
           ELSE register(email, password, role, username, fail)
  IN /\ errors # {} => fail = "none"
     /\ (errors # {} \/ role # "user") => username = FreshUsername
     /\ fail # "none" => role = "user"
     /\ e.tokens # tokens => BagCardinality(tokens) < MaxTokens
     /\ Apply(e)
     /\ req' = [EmptyReq EXCEPT !.email = email, !.password = password,
                                !.role = role, !.username = username,
                                !.fail = fail]
     /\ UNCHANGED <<now, NODE_ENV, revoked, pending,
                    blogs, comments>>

PostRegister(email, password, role, username, fail) ==
  /\ RegisterRequest(email, password, role, username, fail)
  /\ UNCHANGED unrecorded

\* POST /auth/login: validators, validationError, login
loginRoute(email, password, fail) ==
  LET errors == loginErrors(email, password)
  IN IF errors # {}
       THEN Effect(users, tokens, nextId, ValidationErrorRes("login", errors))
     ELSE login(email, fail)

LoginRequest(email, password, fail) ==
  LET errors == loginErrors(email, password)
      e == loginRoute(email, password, fail)
  IN /\ fail # "none" => errors = {} /\ email = "a@x.com"
     /\ e.tokens # tokens => BagCardinality(tokens) < MaxTokens
     /\ Apply(e)
     /\ req' = [EmptyReq EXCEPT !.email = email, !.password = password,
                                !.fail = fail]
     /\ UNCHANGED <<now, NODE_ENV, revoked, pending,
                    blogs, comments>>

PostLogin(email, password, fail) ==
  /\ LoginRequest(email, password, fail)
  /\ UNCHANGED unrecorded

\* the same requests, with the history variable noting the first refresh
\* token that was signed in a request whose Token.create then failed
PostRegisterNoted(email, password, role, username, fail) ==
  /\ RegisterRequest(email, password, role, username, fail)
  /\ unrecorded' = IF /\ unrecorded = NoToken
                      /\ fail = "Token.create"
                      /\ users' # users
                      /\ res'.status = 500
                     THEN generateRefreshToken(nextId, now)
                   ELSE unrecorded

PostLoginNoted(email, password, fail) ==
  /\ LoginRequest(email, password, fail)
  /\ unrecorded' = IF /\ unrecorded = NoToken
                      /\ fail = "Token.create"
                      /\ res'.op = "login"
                      /\ res'.status = 500
                     THEN generateRefreshToken(UserByEmail(users, email).id, now)
                   ELSE unrecorded

\* POST /auth/refresh-token: cookie validator, validationError, refreshToken
PostRefreshToken(cookie, fail) ==
  LET errors == refreshErrors(cookie)
      e == IF errors # {}
             THEN Effect(users, tokens, nextId,
                         ValidationErrorRes("refresh", errors))
           ELSE refreshToken(tokens, cookie, fail)
  IN /\ fail # "none" => cookie = SomeRecorded
     /\ Apply(e)
     /\ req' = [EmptyReq EXCEPT !.cookie = cookie, !.fail = fail]
     /\ UNCHANGED <<now, NODE_ENV, revoked, unrecorded, pending,
                    blogs, comments>>

\* POST /auth/logout: authenticate, logout
LogoutRequest(header, cookie, fail) ==
  LET auth == authenticate(header, now)
      e == IF ~auth.next
             THEN Effect(users, tokens, nextId, auth.res)
           ELSE logout(cookie, fail)
  IN /\ (~auth.next \/ fail # "none") => cookie = SomeRecorded
     /\ fail # "none" => auth.next /\ auth.userId \in SomeIds
     /\ Apply(e)
     /\ req' = [EmptyReq EXCEPT !.cookie = cookie, !.auth = header,
                                !.fail = fail]
     /\ UNCHANGED <<now, NODE_ENV, unrecorded, pending,
                    blogs, comments>>

PostLogout(header, cookie, fail) ==
  /\ LogoutRequest(header, cookie, fail)
  /\ UNCHANGED revoked

\* the same request, with the history variable noting the first token whose
\* record a logout removes
PostLogoutNoted(header, cookie, fail) ==
  /\ LogoutRequest(header, cookie, fail)
  /\ revoked' = IF res'.status = 204 /\ cookie \in Recorded /\ revoked = NoToken
                  THEN cookie ELSE revoked

\* POST /blogs and PUT /blogs/:blogId up to uploadBlogBanner: authenticate,
\* authorize(["admin"]), the multer upload, uploadBlogBanner; for PUT the
\* validators in between pass
BlogBannerRequest(header, method, file, fail) ==
  LET auth == authenticate(header, now)
      authz == authorize({"admin"}, auth.userId, fail)
      answers == IF ~auth.next THEN {auth.res}
                 ELSE IF ~authz.next THEN {authz.res}
                 ELSE uploadBlogBanner(method, file, fail)
  IN /\ (~auth.next \/ ~authz.next) => method = "post" /\ file = "ok"
     /\ fail # "none" => auth.next /\ file = "ok" /\ method = "post"
     /\ fail \notin {"none", "User.findById"} => authz.next
     /\ \E r \in answers : res' = r
     /\ req' = [EmptyReq EXCEPT !.auth = header, !.method = method,
                                !.file = file, !.fail = fail]
     /\ UNCHANGED <<users, tokens, nextId, now, NODE_ENV, revoked, unrecorded,
                    pending,
                    blogs, comments>>

\* GET /comments/blog/:blogId: authenticate, authorize(["admin", "user"]),
\* the blogId validator, validationError, getCommentsByBlog
GetCommentsByBlog(header, blogId, fail) ==
  LET auth == authenticate(header, now)
      authz == authorize({"admin", "user"}, auth.userId, fail)
      errors == commentsErrors(blogId)
  IN /\ (~auth.next \/ ~authz.next) => blogId = "blog-1"
     /\ fail # "none" => auth.next /\ blogId = "blog-1"
     /\ fail = "Blog.findById" => authz.next
     /\ res' = IF ~auth.next THEN auth.res
               ELSE IF ~authz.next THEN authz.res
               ELSE IF errors # {}
                 THEN ValidationErrorRes("getCommentsByBlog", errors)
               ELSE getCommentsByBlog(blogId, fail)
     /\ req' = [EmptyReq EXCEPT !.auth = header, !.blogId = blogId,
                                !.fail = fail]
     /\ UNCHANGED <<users, tokens, nextId, now, NODE_ENV, revoked, unrecorded,
                    pending,
                    blogs, comments>>

\* POST /auth/register in two steps, other requests running in between: the
\* validators and validationError, and later the controller
RegisterValidate(email, password, role) ==
  LET errors == registerErrors(email, password, role)
  IN /\ errors = {} => BagCardinality(pending) < MaxPending
     /\ pending' = IF errors # {} THEN pending
                   ELSE pending (+) SetToBag({[op |-> "register", userId |-> 0,
                                               username |-> Undefined,
                                               email |-> email,
                                               password |-> password,
                                               role |-> role]})
     /\ res' = IF errors # {} THEN ValidationErrorRes("register", errors)
               ELSE NextRes
     /\ req' = [EmptyReq EXCEPT !.email = email, !.password = password,
                                !.role = role]
     /\ UNCHANGED <<users, tokens, nextId, now, NODE_ENV, revoked, unrecorded,
                    blogs, comments>>

RegisterCreate(p, username) ==
  LET e == register(p.email, p.password, p.role, username, "none")
  IN /\ p \in BagToSet(pending)
     /\ p.op = "register"
     /\ e.tokens # tokens => BagCardinality(tokens) < MaxTokens
     /\ Apply(e)
     /\ pending' = pending (-) SetToBag({p})
     /\ req' = [EmptyReq EXCEPT !.email = p.email, !.password = p.password,
                                !.role = p.role, !.username = username]
     /\ UNCHANGED <<now, NODE_ENV, revoked, unrecorded,
                    blogs, comments>>

\* PUT /users/current in two steps: authenticate, authorize(["admin", "user"]),
\* the validators and validationError, and later updateCurrentUser
UpdateValidate(header, username, email, password) ==
  LET auth == authenticate(header, now)
      authz == authorize({"admin", "user"}, auth.userId, "none")
      errors == updateErrors(username, email, password)
      passed == auth.next /\ authz.next /\ errors = {}
  IN /\ ~auth.next => username = "user-9"
     /\ passed => BagCardinality(pending) < MaxPending
     /\ pending' = IF ~passed THEN pending
                   ELSE pending (+) SetToBag({[op |-> "update",
                                               userId |-> auth.userId,
                                               username |-> username,
                                               email |-> email,
                                               password |-> password,
                                               role |-> ""]})
     /\ res' = IF ~auth.next THEN auth.res
               ELSE IF ~authz.next THEN authz.res
               ELSE IF errors # {}
                 THEN ValidationErrorRes("updateCurrentUser", errors)
               ELSE NextRes
     /\ req' = [EmptyReq EXCEPT !.auth = header, !.username = username,
                                !.email = email, !.password = password]
     /\ UNCHANGED <<users, tokens, nextId, now, NODE_ENV, revoked, unrecorded,
                    blogs, comments>>

UpdateSave(p, fail) ==
  LET e == updateCurrentUser(p.userId, p.username, p.email, p.password, fail)
  IN /\ p \in BagToSet(pending)
     /\ p.op = "update"
     /\ fail # "none" => p.password # Undefined
     /\ Apply(e)
     /\ pending' = pending (-) SetToBag({p})
     /\ req' = [EmptyReq EXCEPT !.auth = Bearer(generateAccessToken(p.userId, now)),
                                !.username = p.username, !.email = p.email,
                                !.password = p.password, !.fail = fail]
     /\ UNCHANGED <<now, NODE_ENV, revoked, unrecorded,
                    blogs, comments>>

\* PUT /users/current: authenticate, authorize(["admin", "user"]), the
\* validators, validationError, updateCurrentUser
PutCurrentUser(header, username, email, password, fail) ==
  LET auth == authenticate(header, now)
      authz == authorize({"admin", "user"}, auth.userId, "none")
      errors == updateErrors(username, email, password)
      e == IF ~auth.next THEN Effect(users, tokens, nextId, auth.res)
           ELSE IF ~authz.next THEN Effect(users, tokens, nextId, authz.res)
           ELSE IF errors # {}
             THEN Effect(users, tokens, nextId,
                         ValidationErrorRes("updateCurrentUser", errors))
           ELSE updateCurrentUser(auth.userId, username, email, password, fail)
  IN /\ ~auth.next => username = "user-9"
     /\ fail # "none" => auth.next /\ authz.next /\ errors = {}
                          /\ password = OtherPassword
     /\ Apply(e)
     /\ req' = [EmptyReq EXCEPT !.auth = header, !.username = username,
                                !.email = email, !.password = password,
                                !.fail = fail]
     /\ UNCHANGED <<now, NODE_ENV, revoked, unrecorded, pending, blogs,
                    comments>>

\* POST /comments/blog/:blogId up to the first await of createComment:
\* authenticate, authorize(["admin", "user"]), the validators,
\* validationError, and Blog.findById(blogId).select("_id commentsCount")
CommentRead(header, blogId, content, fail) ==
  LET auth == authenticate(header, now)
      authz == authorize({"admin", "user"}, auth.userId, "none")
      errors == createCommentErrors(content)
      found == \E b \in blogs : b.id = blogId
      passed == auth.next /\ authz.next /\ errors = {} /\ fail = "none"
                  /\ found
  IN /\ (~auth.next \/ fail # "none") => content = "text" /\ found
     /\ fail # "none" => auth.next /\ authz.next
     /\ passed => BagCardinality(pending) + Cardinality(comments) < MaxComments
     /\ pending' =
          IF ~passed THEN pending
          ELSE pending (+)
                 SetToBag({[op |-> "createComment", userId |-> auth.userId,
                            blogId |-> blogId, created |-> FALSE,
                            commentsCount |->
                              (CHOOSE b \in blogs : b.id = blogId).commentsCount]})
     /\ res' = IF ~auth.next THEN auth.res
               ELSE IF ~authz.next THEN authz.res
               ELSE IF errors # {}
                 THEN ValidationErrorRes("createComment", errors)
               ELSE IF fail = "Blog.findById"
                 THEN [EmptyRes EXCEPT !.op = "createComment", !.status = 500,
                                       !.keys = {"message", "status"},
                                       !.message = "Internal server error"]
               ELSE IF ~found
                 THEN [EmptyRes EXCEPT !.op = "createComment", !.status = 404,
                                       !.keys = {"message", "status"},
                                       !.message = "Blog not found"]
               ELSE NextRes
     /\ req' = [EmptyReq EXCEPT !.auth = header, !.target = blogId,
                                !.route = "createComment", !.fail = fail]
     /\ UNCHANGED <<users, tokens, nextId, now, NODE_ENV, revoked, unrecorded,
                    blogs, comments>>

\* createComment, second await: Comment.create({ blogId, content, userId })
CommentCreate(p) ==
  /\ p \in BagToSet(pending)
  /\ p.op = "createComment"
  /\ ~p.created
  /\ comments' = comments \cup {[id |-> Cardinality(comments) + 1,
                                  blogId |-> p.blogId, userId |-> p.userId]}
  /\ pending' = (pending (-) SetToBag({p}))
                   (+) SetToBag({[p EXCEPT !.created = TRUE]})
  /\ res' = NextRes
  /\ req' = [EmptyReq EXCEPT !.target = p.blogId, !.route = "createComment"]
  /\ UNCHANGED <<users, tokens, nextId, now, NODE_ENV, revoked, unrecorded,
                 blogs>>

\* createComment, the rest: blog.commentsCount++ on the document read at the
\* start, blog.save() writing that number, and the 201
CommentSave(p) ==
  /\ p \in BagToSet(pending)
  /\ p.op = "createComment"
  /\ p.created
  /\ blogs' = {IF b.id = p.blogId
                 THEN [b EXCEPT !.commentsCount = p.commentsCount + 1]
               ELSE b : b \in blogs}
  /\ pending' = pending (-) SetToBag({p})
  /\ res' = [EmptyRes EXCEPT !.op = "createComment", !.status = 201,
                             !.keys = {"commentCount"}]
  /\ req' = [EmptyReq EXCEPT !.target = p.blogId, !.route = "createComment"]
  /\ UNCHANGED <<users, tokens, nextId, now, NODE_ENV, revoked, unrecorded,
                 comments>>

\* a request to an admin route: authenticate, authorize(["admin"]), the
\* validators and uploadBlogBanner passing, and the controller
AdminRequest(header, route, target, fail) ==
  LET auth == authenticate(header, now)
      authz == authorize({"admin"}, auth.userId, fail)
      o == IF ~auth.next THEN Outcome(users, blogs, tokens, auth.res)
           ELSE IF ~authz.next THEN Outcome(users, blogs, tokens, authz.res)
           ELSE adminController(route, auth.userId, target, fail)
  IN /\ target \in TargetsOf(route)
     /\ ~auth.next => route = "getAllUsers"
     /\ fail # "none" => auth.next
     /\ fail = "User.findById" => route = "getAllUsers"
     /\ fail = "User.deleteOne" => authz.next /\ route = "deleteUserById"
     /\ o.blogs # blogs => Cardinality(o.blogs) <= MaxBlogs
     /\ users' = o.users
     /\ blogs' = o.blogs
     /\ tokens' = o.tokens
     /\ res' = o.res
     /\ req' = [EmptyReq EXCEPT !.auth = header, !.route = route,
                                !.target = target, !.fail = fail]
     /\ UNCHANGED <<nextId, now, NODE_ENV, revoked, unrecorded, pending,
                    comments>>

\* DELETE /users/:userId with the cascading delete_user_by_id, first half:
\* authenticate, authorize(["admin"]), Blog.find and Blog.deleteMany
DeleteUserBlogs(header, target) ==
  LET auth == authenticate(header, now)
      authz == authorize({"admin"}, auth.userId, "none")
      passed == auth.next /\ authz.next
  IN /\ target \in KnownIds
     /\ ~auth.next => target = 1
     /\ passed => BagCardinality(pending) < MaxDeleting
     /\ blogs' = IF passed THEN BlogDeleteMany(blogs, target) ELSE blogs
     /\ pending' = IF ~passed THEN pending
                   ELSE pending (+) SetToBag({[op |-> "deleteUserById",
                                               userId |-> target]})
     /\ res' = IF ~auth.next THEN auth.res
               ELSE IF ~authz.next THEN authz.res
               ELSE NextRes
     /\ req' = [EmptyReq EXCEPT !.auth = header, !.route = "deleteUserById",
                                !.target = target]
     /\ UNCHANGED <<users, tokens, nextId, now, NODE_ENV, revoked, unrecorded,
                    comments>>

\* second half: User.deleteOne and res.sendStatus(204)
DeleteUserRecord(p) ==
  /\ p \in BagToSet(pending)
  /\ p.op = "deleteUserById"
  /\ users' = {u \in users : u.id # p.userId}
  /\ pending' = pending (-) SetToBag({p})
  /\ res' = Answered("deleteUserById", 204)
  /\ req' = [EmptyReq EXCEPT !.route = "deleteUserById", !.target = p.userId]
  /\ UNCHANGED <<tokens, nextId, now, NODE_ENV, revoked, unrecorded, blogs,
                 comments>>

\* a second passes
Tick ==
  /\ now < MaxClock
  /\ now' = now + 1
  /\ req' = EmptyReq
  /\ res' = EmptyRes
  /\ UNCHANGED <<users, tokens, nextId, NODE_ENV, revoked, unrecorded, pending,
                    blogs, comments>>

----------------------------------------------------------------------------

Init ==
  /\ users = {}
  /\ tokens = EmptyBag
  /\ now = 0
  /\ nextId = 1
  /\ NODE_ENV \in Environments
  /\ req = EmptyReq
  /\ res = EmptyRes
  /\ revoked = NoToken
  /\ unrecorded = NoToken
  /\ pending = EmptyBag
  /\ blogs = {}
  /\ comments = {}

Requests ==
  \/ \E body \in RegisterBodies, username \in UsernameInputs,
        fail \in {"none", "User.create", "Token.create"} :
       PostRegister(body.email, body.password, body.role, username, fail)
  \/ \E body \in LoginBodies, fail \in {"none", "Token.create"} :
       PostLogin(body.email, body.password, fail)
  \/ \E cookie \in CookieInputs, fail \in {"none", "Token.exists"} :
       PostRefreshToken(cookie, fail)
  \/ Tick

\* requests to the blog and comment routes
ContentRequests ==
  \/ \E header \in ContentHeaderInputs, method \in {"post", "put"},
        file \in {"none", "large", "ok"},
        fail \in {"none", "User.findById", "Blog.findById", "upload:undefined",
                  "upload:400", "upload:500"} :
       BlogBannerRequest(header, method, file, fail)
  \/ \E header \in ContentHeaderInputs, blogId \in BlogIds,
        fail \in {"none", "User.findById", "Blog.findById"} :
       GetCommentsByBlog(header, blogId, fail)

Next ==
  \/ Requests
  \/ \E header \in HeaderInputs, cookie \in LogoutCookieInputs,
        fail \in {"none", "Token.deleteOne"} :
       PostLogout(header, cookie, fail)

Spec == Init /\ [][Next]_vars

\* the same system with the history variable unrecorded kept
NextUnrecorded ==
  \/ \E body \in RegisterBodies, username \in UsernameInputs,
        fail \in {"none", "User.create", "Token.create"} :
       PostRegisterNoted(body.email, body.password, body.role, username, fail)
  \/ \E body \in LoginBodies, fail \in {"none", "Token.create"} :
       PostLoginNoted(body.email, body.password, fail)
  \/ \E cookie \in CookieInputs, fail \in {"none", "Token.exists"} :
       PostRefreshToken(cookie, fail)
  \/ \E header \in HeaderInputs, cookie \in LogoutCookieInputs,
        fail \in {"none", "Token.deleteOne"} :
       PostLogout(header, cookie, fail)
  \/ Tick

SpecUnrecorded == Init /\ [][NextUnrecorded]_vars

\* register and profile update with their steps interleaved
NextConcurrent ==
  \/ \E body \in ConcurrentRegisterBodies :
       RegisterValidate(body.email, body.password, body.role)
  \/ \E p \in BagToSet(pending), username \in UsernameInputs :
       RegisterCreate(p, username)
  \/ \E header \in ContentHeaderInputs, body \in UpdateBodies :
       UpdateValidate(header, body.username, body.email, body.password)
  \/ \E p \in BagToSet(pending), fail \in {"none", "User.findById", "user.save"} :
       UpdateSave(p, fail)

SpecConcurrent == Init /\ [][NextConcurrent]_vars

\* the auth routes together with the blog and comment routes
NextContent ==
  \/ Requests
  \/ ContentRequests

SpecContent == Init /\ [][NextContent]_vars

\* the same system with the history variable revoked kept
NextNoted ==
  \/ Requests
  \/ \E header \in HeaderInputs, cookie \in LogoutCookieInputs,
        fail \in {"none", "Token.deleteOne"} :
       PostLogoutNoted(header, cookie, fail)

SpecNoted == Init /\ [][NextNoted]_vars

\* accounts and what they own: register, refresh, the admin routes, and the
\* cascading delete in its two steps
NextAccounts ==
  \/ \E body \in AccountRegisterBodies :
       PostRegister(body.email, body.password, body.role, FreshUsername, "none")
  \/ \E cookie \in Recorded : PostRefreshToken(cookie, "none")
  \/ \E header \in AccountHeaderInputs, route \in AdminRoutes,
        target \in KnownIds \cup {b.id : b \in blogs} \cup {0},
        fail \in {"none", "User.findById", "User.deleteOne"} :
       AdminRequest(header, route, target, fail)
  \/ \E header \in AccountHeaderInputs, target \in KnownIds :
       DeleteUserBlogs(header, target)
  \/ \E p \in BagToSet(pending) : DeleteUserRecord(p)

SpecAccounts == Init /\ [][NextAccounts]_vars

\* profiles: register, login, refresh, logout and PUT /users/current, one
\* request at a time
NextProfile ==
  \/ \E body \in RegisterBodies :
       PostRegister(body.email, body.password, body.role, FreshUsername, "none")
  \/ \E body \in LoginBodies : PostLogin(body.email, body.password, "none")
  \/ \E cookie \in Recorded : PostRefreshToken(cookie, "none")
  \/ \E cookie \in Recorded :
       PostLogout(Bearer(generateAccessToken(cookie.userId, now)), cookie,
                  "none")
  \/ \E header \in ContentHeaderInputs,
        fail \in {"none", "User.findById", "user.save"} :
       \E body \in ProfileBodies(header) :
         PutCurrentUser(header, body.username, body.email, body.password, fail)

SpecProfile == Init /\ [][NextProfile]_vars

\* comments on a blog, the steps of createComment interleaved
NextComments ==
  \/ \E body \in AccountRegisterBodies :
       PostRegister(body.email, body.password, body.role, FreshUsername, "none")
  \/ \E header \in ContentHeaderInputs :
       AdminRequest(header, "createBlog", 0, "none")
  \/ \E header \in ContentHeaderInputs, blogId \in 1..(MaxBlogs + 1),
        content \in {"", "text"}, fail \in {"none", "Blog.findById"} :
       CommentRead(header, blogId, content, fail)
  \/ \E p \in BagToSet(pending) : CommentCreate(p)
  \/ \E p \in BagToSet(pending) : CommentSave(p)

SpecComments == Init /\ [][NextComments]_vars

\* sessions over time: register, logout, the deletion of users, a request
\* to an admin route, and the clock
NextSessions ==
  \/ \E body \in AccountRegisterBodies :
       /\ nextId <= MaxUsers
       /\ PostRegister(body.email, body.password, body.role, FreshUsername,
                       "none")
  \/ \E cookie \in Recorded :
       PostLogout(Bearer(generateAccessToken(cookie.userId, now)), cookie,
                  "none")
  \/ \E header \in AccountHeaderInputs,
        route \in {"getAllUsers", "deleteUserById"}, target \in KnownIds \cup {0} :
       AdminRequest(header, route, target, "none")
  \/ Tick

SpecSessions == Init /\ [][NextSessions]_vars

----------------------------------------------------------------------------
(* Properties.  req and res describe the exchange of the current second,   *)
(* so in a state with res.op = "refresh" the clock and the collections are *)
(* the ones the handler left.                                              *)

\* the refresh controller ran on a JWT cookie and the store answered
RefreshServed ==
  res.op = "refresh" /\ req.cookie.kind = "jwt" /\ req.fail = "none"

\* C1: a refresh whose cookie token has no record in the Token collection is
\* answered 401 AuthenticationError and issues no access token, whatever the
\* signature and the expiry of the token are.
C1_UnrecordedRefreshRejected ==
  (RefreshServed /\ ~TokenExists(tokens, req.cookie))
    => /\ res.status = 401
       /\ res.code = "AuthenticationError"
       /\ res.accessToken = NoToken

\* a refresh was refused for a token whose signature and expiry are in order
C1_Witness ==
  /\ RefreshServed
  /\ ~TokenExists(tokens, req.cookie)
  /\ verifyRefreshToken(req.cookie, now).ok
  /\ res.status = 401

C3_OnlyLogoutOfTokenRemoves ==
  [][\A t \in Recorded :
       TokenCount(tokens', t) < TokenCount(tokens, t)
         => res'.op = "logout" /\ req'.cookie = t]_vars

\* a user logged in again and holds two different recorded refresh tokens
C3_Witness ==
  /\ res.op = "login"
  /\ res.status = 201
  /\ \E d1, d2 \in BagToSet(tokens) :
       d1.userId = d2.userId /\ d1.token # d2.token

\* C4: a register request with role admin and an email outside the allow-list
\* is answered 403 AuthorizationError and changes nothing: no User, no Token
\* record, no cookie, no access token.
C4_AdminOutsideAllowListRefused ==
  [][(/\ res'.op = "register"
      /\ req'.role = "admin"
      /\ req'.email \notin WHITELISTED_ADMIN_MAIL
      /\ registerErrors(req'.email, req'.password, req'.role) = {})
       => /\ res'.status = 403
          /\ res'.code = "AuthorizationError"
          /\ users' = users
          /\ tokens' = tokens
          /\ res'.cookie = NoCookie
          /\ res'.accessToken = NoToken]_vars

\* such a request was refused
C4_Witness ==
  /\ res.op = "register"
  /\ req.role = "admin"
  /\ req.email = "b@x.com"
  /\ res.status = 403

\* C5: a successful refresh answers with an access token only and leaves the
\* Token collection as it was: the presented token keeps its record, nothing
\* is added, replaced or removed, and no cookie is set.
C5_RefreshDoesNotRotate ==
  [][(res'.op = "refresh" /\ res'.status = 200)
       => /\ tokens' = tokens
          /\ users' = users
          /\ TokenExists(tokens', req'.cookie)
          /\ res'.keys = {"accessToken"}
          /\ res'.accessToken.kind = "jwt"
          /\ res'.cookie = NoCookie]_vars

\* a refresh succeeded for a token issued a second earlier
C5_Witness ==
  /\ res.op = "refresh"
  /\ res.status = 200
  /\ req.cookie.iat < now

\* tokens whose signature the refresh secret did not make
WronglySigned ==
  {Forge(t) : t \in RefreshTokensSoFar}
    \cup {generateAccessToken(u, i) : u \in KnownIds, i \in 0..now}

\* C6: for a recorded refresh token the refresh controller tells the failures
\* apart: 200 exactly when the token verifies, 401 "Refresh token expired" when
\* it has expired, 401 "Invalid refresh token" when its signature is not the
\* refresh secret's, and no access token in either failure.  No reachable
\* Token collection holds a wrongly signed token, so that case is put to the
\* controller over the collection with such a record added.
C6_RefreshFailureKinds ==
  /\ RefreshServed =>
       LET v == verifyRefreshToken(req.cookie, now)
           recorded == TokenExists(tokens, req.cookie)
       IN /\ res.status = 200 <=> (recorded /\ v.ok)
          /\ (recorded /\ v.err = "TokenExpiredError")
               => /\ res.status = 401
                  /\ res.code = "AuthenticationError"
                  /\ res.message = "Refresh token expired. Please login again."
                  /\ res.accessToken = NoToken
          /\ (recorded /\ v.err = "JsonWebTokenError")
               => /\ res.status = 401
                  /\ res.code = "AuthenticationError"
                  /\ res.message = "Invalid refresh token"
                  /\ res.accessToken = NoToken
  /\ \A t \in WronglySigned :
       LET r == refreshToken(TokenCreate(tokens, t, t.userId), t, "none").res
       IN /\ r.status = 401
          /\ r.code = "AuthenticationError"
          /\ r.message = "Invalid refresh token"
          /\ r.accessToken = NoToken

\* a recorded refresh token was presented after its expiry
C6_Witness ==
  /\ RefreshServed
  /\ TokenExists(tokens, req.cookie)
  /\ now >= req.cookie.exp
  /\ res.message = "Refresh token expired. Please login again."

\* authenticate refused a bearer token that is a JWT
BearerRefused ==
  /\ res.op = "authenticate"
  /\ req.auth.scheme = "Bearer"
  /\ req.auth.token.kind = "jwt"

C9_WrongKeyNeverVerifies ==
  /\ res.op = "logout" => req.auth.token.key = JWT_ACCESS_SECRET
  /\ (BearerRefused /\ req.auth.token.key # JWT_ACCESS_SECRET)
       => /\ res.status = 401
          /\ res.code = "AuthenticationError"
          /\ res.message = "Access token invalid"
  /\ (res.op = "refresh" /\ res.status = 200)
       => req.cookie.key = JWT_REFRESH_SECRET
  /\ (RefreshServed /\ req.cookie.key # JWT_REFRESH_SECRET)
       => /\ res.status = 401
          /\ res.code = "AuthenticationError"
          /\ res.message = "Invalid refresh token"
          /\ res.accessToken = NoToken

\* authenticate refused a recorded, unexpired refresh token
C9_Witness ==
  /\ BearerRefused
  /\ req.auth.token.key = JWT_REFRESH_SECRET
  /\ TokenExists(tokens, req.auth.token)
  /\ now < req.auth.token.exp
  /\ res.message = "Access token invalid"

\* the register controller ran and no write failed
RegisterServed ==
  /\ res'.op = "register"
  /\ registerErrors(req'.email, req'.password, req'.role) = {}
  /\ ~(req'.role = "admin" /\ req'.email \notin WHITELISTED_ADMIN_MAIL)
  /\ req'.fail = "none"
  /\ ~DuplicateKey(users, req'.username, req'.email)

\* C10: a register request that passes validation and the allow-list check
\* and meets no storage failure is answered 201 with the username, email and
\* role of the new user and an access token, sets the refreshToken cookie
\* (httpOnly, sameSite strict, secure exactly in production), and has added
\* exactly one User and exactly one Token record, holding the cookie's token
\* and the new user's id.
C10_RegisterCreatesSession ==
  [][/\ RegisterServed => res'.status = 201
     /\ (res'.op = "register" /\ res'.status = 201)
          => \E u \in users' \ users :
               /\ users' = users \cup {u}
               /\ u.email = req'.email
               /\ u.role = roleOrDefault(req'.role)
               /\ res'.user = [username |-> u.username, email |-> u.email,
                               role |-> u.role]
               /\ res'.accessToken.kind = "jwt"
               /\ res'.cookie = [op |-> "set",
                                 value |-> res'.cookie.value,
                                 httpOnly |-> TRUE,
                                 secure |-> (NODE_ENV = "production"),
                                 sameSite |-> "strict"]
               /\ res'.cookie.value.kind = "jwt"
               /\ tokens' = tokens (+) SetToBag({[token |-> res'.cookie.value,
                                                  userId |-> u.id]})
               /\ BagCardinality(tokens') = BagCardinality(tokens) + 1]_vars

\* a second user registered outside production
C10_Witness ==
  /\ res.op = "register"
  /\ res.status = 201
  /\ NODE_ENV = "development"
  /\ Cardinality(users) = 2
  /\ res.cookie.op = "set"

\* C11: a login with the email of a user and a wrong password is answered
\* 400 ValidationError with the message "User email or password is
\* incorrect", and that response equals the response to a login with an
\* email no user holds.
C11_LoginDoesNotRevealEmail ==
  \A known \in Emails, unknown \in Emails :
    (UserExistsByEmail(users, known) /\ ~UserExistsByEmail(users, unknown))
      => LET wrong == loginRoute(known, OtherPassword, "none").res
             nobody == loginRoute(unknown, OtherPassword, "none").res
         IN /\ wrong.status = 400
            /\ wrong.code = "ValidationError"
            /\ \E e \in wrong.errors :
                 e.msg = "User email or password is incorrect"
            /\ wrong = nobody

\* C12: a refresh-token request without the cookie is answered 400
\* ValidationError "Refresh token required" by the validator: the Token
\* collection is neither read nor changed, also when it would fail, and no
\* access token is issued.
C12_MissingCookieRejectedByValidator ==
  [][(res'.op = "refresh" /\ req'.cookie = NoToken)
       => /\ res'.status = 400
          /\ res'.code = "ValidationError"
          /\ res'.errors = {[field |-> "refreshToken",
                             msg |-> "Refresh token required"]}
          /\ res'.accessToken = NoToken
          /\ tokens' = tokens]_vars

\* a request without cookie was refused while the store was failing
C12_Witness ==
  /\ res.op = "refresh"
  /\ req.cookie = NoToken
  /\ req.fail = "Token.exists"
  /\ res.status = 400

\* C13: a logout request whose Authorization header holds no access token that
\* verifies is answered 401, removes no Token record and clears no cookie.
C13_LogoutNeedsAuthentication ==
  [][(/\ res'.op \in {"authenticate", "logout"}
      /\ \/ req'.auth.scheme # "Bearer"
         \/ ~verifyAccessToken(req'.auth.token, now).ok)
       => /\ res'.status = 401
          /\ res'.code = "AuthenticationError"
          /\ tokens' = tokens
          /\ res'.cookie = NoCookie]_vars

\* a logout that presents a recorded refresh token was refused because its
\* access token had expired
C13_Witness ==
  /\ res.op = "authenticate"
  /\ res.status = 401
  /\ req.cookie \in Recorded
  /\ req.auth.scheme = "Bearer"
  /\ req.auth.token.key = JWT_ACCESS_SECRET
  /\ now >= req.auth.token.exp

\* C14: every 4xx response body is {code, message} and every 5xx response
\* body is {code, message, error}, whichever middleware or controller answers.
C14_ErrorResponsesHaveDocumentedShape ==
  /\ res.status \in 400..499 => res.keys = {"code", "message"}
  /\ res.status \in 500..599 => res.keys = {"code", "message", "error"}

\* the handler reached the call that failed
FailureRaised ==
  /\ req.fail # "none"
  /\ res.op = "refresh" => req.cookie.kind = "jwt"

\* C17: every unexpected failure met while a request is handled is answered
\* by the handler with status 500; none is left unanswered or answered with
\* another status.
C17_UnexpectedFailuresAnswered500 ==
  FailureRaised => (res.status = 500 /\ res.keys # {})

\* C15: every record of the Token collection holds a refresh token the
\* service issued (signed with the refresh secret) for the user id of the
\* record, and at the moment a record is added its token has just been signed
\* and its expiry lies in the future.
C15_StoreHoldsOnlyIssuedRefreshTokens ==
  /\ [](\A d \in BagToSet(tokens) :
          /\ d.token \in RefreshTokensSoFar
          /\ d.token.key = JWT_REFRESH_SECRET
          /\ d.token.userId = d.userId)
  /\ [][\A d \in BagToSet(tokens') :
          CopiesIn(d, tokens') > CopiesIn(d, tokens)
            => /\ d.token = generateRefreshToken(d.userId, now)
               /\ now < d.token.exp]_vars

\* a record has outlived the expiry of its token
C15_Witness ==
  \E d \in BagToSet(tokens) : now >= d.token.exp

Passwords == {GoodPassword, OtherPassword, WeakPassword}

C19_EmailAndUsernameUnique ==
  \A u1, u2 \in users :
    (u1.id = u2.id \/ u1.email = u2.email \/ u1.username = u2.username)
      => u1 = u2

\* two requests passed validation with the same email and the unique index
\* refused the one that came second
C19_Witness ==
  /\ res.op \in {"register", "updateCurrentUser"}
  /\ res.status = 500
  /\ req.fail = "none"
  /\ \E u \in users : u.email = req.email
  /\ Cardinality(users) = 2

\* C20: a register request whose email is the email of a user is answered
\* 400 ValidationError, also when it passed validation before the other
\* request with that email created its user.
C20_DuplicateEmailAnswered400 ==
  [][(/\ res'.op = "register"
      /\ req'.fail = "none"
      /\ UserExistsByEmail(users, req'.email))
       => /\ res'.status = 400
          /\ res'.code = "ValidationError"]_vars

\* C23: authenticate calls next, with req.userId the user id of the token,
\* exactly when the header is a Bearer header whose access token verifies; a
\* missing or non-Bearer header, an expired token and an invalid token are
\* each answered 401 AuthenticationError with a message of their own, and
\* next is not called.
C23_AuthenticatePassesOnlyValidBearer ==
  /\ \A h \in HeaderInputs :
       LET a == authenticate(h, now)
           v == verifyAccessToken(h.token, now)
       IN /\ a.next <=> (h.scheme = "Bearer" /\ v.ok)
          /\ a.next => (a.userId = h.token.userId /\ a.res = EmptyRes)
          /\ ~a.next
               => /\ a.res.status = 401
                  /\ a.res.code = "AuthenticationError"
                  /\ a.res.message =
                       IF h.scheme # "Bearer"
                         THEN "Access denied. No token provided."
                       ELSE IF v.err = "TokenExpiredError"
                         THEN "Access token expired, request a new one with refresh token"
                       ELSE "Access token invalid"
  /\ res.op = "logout"
       => /\ req.auth.scheme = "Bearer"
          /\ verifyAccessToken(req.auth.token, now).ok
  /\ res.op = "authenticate"
       => /\ ~authenticate(req.auth, now).next
          /\ res = authenticate(req.auth, now).res

\* a request with a header of another scheme was refused
C23_Witness ==
  /\ res.op = "authenticate"
  /\ req.auth = BasicHeader
  /\ res.message = "Access denied. No token provided."

\* C24: the access token of a successful refresh carries the user id stored
\* in the Token records of the presented refresh token.
C24_RefreshIssuesForRecordedUser ==
  (res.op = "refresh" /\ res.status = 200)
    => /\ TokenExists(tokens, req.cookie)
       /\ \A d \in BagToSet(tokens) :
            d.token = req.cookie
              => /\ res.accessToken.userId = d.userId
                 /\ verifyAccessToken(res.accessToken, now).userId = d.userId

\* a refresh succeeded for the second user while both users hold records
C24_Witness ==
  /\ res.op = "refresh"
  /\ res.status = 200
  /\ req.cookie.userId = 2
  /\ \E d \in BagToSet(tokens) : d.userId = 1

\* C30: when Token.create fails after User.create succeeded, register answers
\* 500 ServerError without cookie and without access token, the new User
\* stays in the collection with no Token record, and a register with the same
\* email is then refused by the validator as an existing user.
C30_RegisterIsNotAtomic ==
  /\ [](\A u \in users :
          (/\ res.op = "register"
           /\ req.fail = "Token.create"
           /\ u.email = req.email)
            => [field |-> "email", msg |-> "User already exists"]
                 \in registerErrors(req.email, req.password, req.role))
  /\ [][(/\ res'.op = "register"
          /\ req'.fail = "Token.create"
          /\ ~DuplicateKey(users, req'.username, req'.email))
           => /\ res'.status = 500
              /\ res'.code = "ServerError"
              /\ res'.cookie = NoCookie
              /\ res'.accessToken = NoToken
              /\ tokens' = tokens
              /\ \E u \in users' \ users :
                   /\ users' = users \cup {u}
                   /\ u.email = req'.email
                   /\ ~\E d \in BagToSet(tokens') : d.userId = u.id]_vars

\* a register stopped at Token.create and left its user behind
C30_Witness ==
  /\ res.op = "register"
  /\ req.fail = "Token.create"
  /\ res.status = 500
  /\ \E u \in users :
       /\ u.email = req.email
       /\ ~\E d \in BagToSet(tokens) : d.userId = u.id

\* C21: once DELETE /users/:userId has answered 204 the User is gone and no
\* Blog of that author is left, blog creation running alongside included.
C21_DeletedUserLeavesNoBlogs ==
  (res.op = "deleteUserById" /\ res.status = 204)
    => /\ ~\E u \in users : u.id = req.target
       /\ ~\E b \in blogs : b.author = req.target

\* the caller of the request just handled, as the User collection held it
\* when the request came in
CallerIs(role) ==
  /\ req'.auth.scheme = "Bearer"
  /\ verifyAccessToken(req'.auth.token, now).ok
  /\ \E u \in users : u.id = req'.auth.token.userId /\ u.role = role

\* C22: the controller of an admin route (list users, get or delete a user
\* by id, create, update or delete a blog) runs only for a caller whose
\* stored role is admin; a caller of role user is answered 403
\* AuthorizationError and nothing is changed.
C22_AdminRoutesNeedAdminRole ==
  [][/\ (req'.route \in AdminRoutes /\ req'.auth # NoHeader
          /\ res'.op \in AdminRoutes \cup {"next"})
          => CallerIs("admin")
     /\ (req'.route \in AdminRoutes /\ CallerIs("user")
          /\ req'.fail = "none")
          => /\ res'.op = "authorize"
             /\ res'.status = 403
             /\ res'.code = "AuthorizationError"
             /\ users' = users
             /\ blogs' = blogs
             /\ tokens' = tokens
             /\ pending' = pending]_vars

\* a user of role user asked to delete a user and was answered 403
C22_Witness ==
  /\ req.route = "deleteUserById"
  /\ res.op = "authorize"
  /\ res.status = 403
  /\ \E u \in users : u.id = req.auth.token.userId /\ u.role = "user"
  /\ \E u \in users : u.id = req.target

\* C25: deleting a user removes none of that user's refresh token records,
\* and refresh does not look the user up: a recorded, unexpired refresh token
\* of a deleted user is still answered 200 with an access token for the
\* deleted id.
C25_DeletedUserCanStillRefresh ==
  /\ [](\A d \in BagToSet(tokens) :
          (/\ ~\E u \in users : u.id = d.userId
           /\ verifyRefreshToken(d.token, now).ok)
            => LET e == refreshToken(tokens, d.token, "none")
               IN /\ e.res.status = 200
                  /\ e.res.accessToken = generateAccessToken(d.userId, now)
                  /\ e.users = users)
  /\ [][(res'.op = "deleteUserById" /\ res'.status = 204)
          => tokens' = tokens]_vars

\* a refresh was answered 200 for a user who was deleted
C25_Witness ==
  /\ res.op = "refresh"
  /\ res.status = 200
  /\ res.accessToken.userId = req.cookie.userId
  /\ ~\E u \in users : u.id = req.cookie.userId
  /\ TokenExists(tokens, req.cookie)

\* C26: authenticate looks at the token and the clock only, not at the Token
\* collection nor at the User collection: an access token keeps passing
\* until it expires whatever became of the records and of the user, while
\* authorize answers 404 NotFound once the user is gone.
C26_AuthenticateIgnoresStores ==
  /\ \A t \in AccessTokensSoFar :
       LET a == authenticate(Bearer(t), now)
       IN /\ a.next <=> now < t.exp
          /\ a.next => a.userId = t.userId
  /\ \A id \in KnownIds, roles \in {{"admin"}, {"admin", "user"}} :
       (~\E u \in users : u.id = id)
         => LET z == authorize(roles, id, "none")
            IN /\ ~z.next
               /\ z.res.status = 404
               /\ z.res.code = "NotFound"
  /\ (/\ req.route \in AdminRoutes
      /\ req.auth.scheme = "Bearer"
      /\ req.fail = "none"
      /\ verifyAccessToken(req.auth.token, now).ok
      /\ ~\E u \in users : u.id = req.auth.token.userId
      /\ res.op \notin AdminRoutes)
       => /\ res.op = "authorize"
          /\ res.status = 404
          /\ res.code = "NotFound"

\* a deleted user whose refresh token records are gone too presented an
\* access token that has not expired, and was answered by authorize
C26_Witness ==
  /\ req.route \in AdminRoutes
  /\ res.op = "authorize"
  /\ res.status = 404
  /\ authenticate(req.auth, now).next
  /\ ~\E u \in users : u.id = req.auth.token.userId
  /\ ~\E d \in BagToSet(tokens) : d.userId = req.auth.token.userId

PasswordsTried == {GoodPassword, OtherPassword} \cup {u.password : u \in users}

\* C29: a profile update that sends no password leaves the stored hash as it
\* was, so the old password still verifies; one that sends a password
\* replaces the hash, so that this password verifies and no other does.
C29_PasswordFollowsProfileUpdate ==
  [][(res'.op = "updateCurrentUser" /\ res'.status = 200)
      => \A u \in users, v \in users' :
           (u.id = req'.auth.token.userId /\ v.id = u.id)
             => /\ req'.password = Undefined
                     => (/\ v.password = u.password
                         /\ \A p \in PasswordsTried :
                              bcryptCompare(p, v.password)
                                <=> bcryptCompare(p, u.password))
                /\ req'.password # Undefined
                     => \A p \in PasswordsTried :
                          bcryptCompare(p, v.password) <=> p = req'.password]_vars

\* C28: whatever the interleaving of concurrent createComment requests on a
\* blog, once all of them have completed commentsCount has grown by the
\* number of Comment records created: no increment is lost.
C28_NoLostIncrement ==
  (~\E p \in BagToSet(pending) : p.op = "createComment")
    => \A b \in blogs :
         b.commentsCount = Cardinality({c \in comments : c.blogId = b.id})

====
